---------------------------- MODULE Spec2Model ----------------------------
(***************************************************************************)
(* A model of `jx pipeline effective` (pkg/cmd/effective/effective.go):    *)
(* the scan of the .lighthouse directories, the loading of every job's     *)
(* effective pipeline, the selection of one (trigger, pipeline) pair and   *)
(* its presentation (print, save, open in an editor).                      *)
(*                                                                         *)
(* Strings are TLA+ strings; the operators below compute on them the way   *)
(* the Go library functions the command calls do.                          *)
(***************************************************************************)
EXTENDS Integers, Sequences, FiniteSets, TLC

(***************************************************************************)
(* Bounds of the model.                                                    *)
(***************************************************************************)
\* most directory entries in one .lighthouse listing
MaxEntries == 2
\* most job specs in the trigger configs of one listing
MaxJobs == 2

(***************************************************************************)
(* String helpers (Go standard library, as called by the command).         *)
(***************************************************************************)
Char(s, k) == SubSeq(s, k, k)

\* strings.HasPrefix
HasPrefix(s, p) == Len(s) >= Len(p) /\ SubSeq(s, 1, Len(p)) = p

\* the characters unicode.IsSpace accepts, among those the model's texts use
IsSpace(c) == c \in {" ", "\t", "\n", "\r"}

RECURSIVE TrimLeft(_)
TrimLeft(s) ==
    IF Len(s) > 0 /\ IsSpace(Char(s, 1)) THEN TrimLeft(SubSeq(s, 2, Len(s))) ELSE s

RECURSIVE TrimRight(_)
TrimRight(s) ==
    IF Len(s) > 0 /\ IsSpace(Char(s, Len(s)))
    THEN TrimRight(SubSeq(s, 1, Len(s) - 1))
    ELSE s

\* strings.TrimSpace
TrimSpace(s) == TrimRight(TrimLeft(s))

\* index of the first occurrence of the one-character string c in s, 0 if none
RECURSIVE IndexFrom(_, _, _)
IndexFrom(s, c, k) ==
    IF k > Len(s) THEN 0
    ELSE IF Char(s, k) = c THEN k
    ELSE IndexFrom(s, c, k + 1)

\* strings.Split(s, sep) for a one-character separator
RECURSIVE Split(_, _)
Split(s, sep) ==
    LET k == IndexFrom(s, sep, 1)
    IN  IF k = 0 THEN <<s>>
        ELSE <<SubSeq(s, 1, k - 1)>> \o Split(SubSeq(s, k + 1, Len(s)), sep)

\* strings.ReplaceAll(s, old, new) for a one-character old
RECURSIVE ReplaceAll(_, _, _)
ReplaceAll(s, old, new) ==
    IF Len(s) = 0 THEN ""
    ELSE (IF Char(s, 1) = old THEN new ELSE Char(s, 1))
             \o ReplaceAll(SubSeq(s, 2, Len(s)), old, new)

\* strings.Join
RECURSIVE JoinStrings(_, _)
JoinStrings(ss, sep) ==
    IF Len(ss) = 0 THEN ""
    ELSE IF Len(ss) = 1 THEN ss[1]
    ELSE ss[1] \o sep \o JoinStrings(Tail(ss), sep)

\* strconv.Itoa, for n >= 0
RECURSIVE Itoa(_)
Itoa(n) ==
    IF n < 10 THEN Char("0123456789", n + 1)
    ELSE Itoa(n \div 10) \o Char("0123456789", (n % 10) + 1)

\* index of the last path separator in p, 0 if none
RECURSIVE LastSep(_, _)
LastSep(p, k) ==
    IF k = 0 THEN 0
    ELSE IF Char(p, k) = "/" THEN k
    ELSE LastSep(p, k - 1)

\* the file part of filepath.Split: what follows the last separator
FileOf(p) == SubSeq(p, LastSep(p, Len(p)) + 1, Len(p))

\* filepath.Join of two clean elements
JoinPath(a, b) ==
    IF b = "" THEN a
    ELSE IF a = "" THEN b
    ELSE IF Char(a, Len(a)) = "/" THEN a \o b
    ELSE a \o "/" \o b

(***************************************************************************)
(* Errors: nil, or a kind and the message the code builds.                 *)
(***************************************************************************)
Nil == [kind |-> "nil", msg |-> ""]

\* errors.New / errors.Errorf
Errorf(m) == [kind |-> "error", msg |-> m]

\* errors.Wrapf(e, m)
Wrapf(e, m) == [kind |-> e.kind, msg |-> m \o ": " \o e.msg]

\* options.InvalidOptionf(option, value, message)
InvalidOptionf(option, value, m) ==
    [kind |-> "invalid option", msg |-> "--" \o option \o " " \o value \o ": " \o m]

(***************************************************************************)
(* The inputs: job specs, trigger configs, directory listings, the tree    *)
(* filepath.Walk visits, pipeline documents.                               *)
(***************************************************************************)
\* job.TektonPipelineAgent
TektonPipelineAgent == "tekton-pipeline"

JobSpec(n, sp, agent, spec) ==
    [Name |-> n, SourcePath |-> sp, Agent |-> agent, PipelineRunSpec |-> spec]

\* PipelineRunSpec is TRUE when the job carries an inline pipeline spec (non-nil)
JobSpecs ==
    { JobSpec("pr", "pr.yaml", "", FALSE),
      JobSpec("pr", "release.yaml", "", FALSE),
      JobSpec("lint", "lint.yaml", "", TRUE),
      JobSpec("pr", "", "", TRUE),
      JobSpec("lint", "broken.yaml", "jenkins", TRUE) }

SeqsUpTo(S, n) == UNION { [1..k -> S] : k \in 0..n }

EmptyConfig == [Presubmits |-> <<>>, Postsubmits |-> <<>>]

NumJobs(c) == Len(c.Presubmits) + Len(c.Postsubmits)

\* the trigger configs with at most n job specs
Configs(n) ==
    { [Presubmits |-> p, Postsubmits |-> q] :
        p \in SeqsUpTo(JobSpecs, n), q \in SeqsUpTo(JobSpecs, n) }

ConfigsUpTo(n) == { c \in Configs(n) : NumJobs(c) <= n }

\* a directory entry of a .lighthouse directory; triggers is the state of its
\* triggers.yaml: "absent", "staterr" (the stat fails), "invalid" (the YAML
\* does not parse) or "ok" (it parses to config)
Entry(n, isDir, triggers, config) ==
    [name |-> n, isDir |-> isDir, triggers |-> triggers, config |-> config]

Absent == Entry("", FALSE, "absent", EmptyConfig)

HiddenConfig ==
    [Presubmits |-> <<JobSpec("pr", "pr.yaml", "", FALSE)>>, Postsubmits |-> <<>>]

\* what a directory may hold under each name, Absent when it holds nothing
HiddenEntries == { Absent, Entry(".hidden", TRUE, "ok", HiddenConfig) }
FileEntries == { Absent, Entry("OWNERS", FALSE, "absent", EmptyConfig) }
DirEntries(n, maxJobs) ==
    { Absent,
      Entry(n, TRUE, "absent", EmptyConfig),
      Entry(n, TRUE, "staterr", EmptyConfig),
      Entry(n, TRUE, "invalid", EmptyConfig) }
    \cup { Entry(n, TRUE, "ok", c) : c \in ConfigsUpTo(maxJobs) }

Present(es) == SelectSeq(es, LAMBDA e : e # Absent)

RECURSIVE SumJobs(_)
SumJobs(es) == IF es = <<>> THEN 0 ELSE NumJobs(Head(es).config) + SumJobs(Tail(es))

\* the listings ioutil.ReadDir can return (sorted by file name) with at most
\* maxEntries entries and maxJobs job specs
Listings(maxEntries, maxJobs) ==
    LET all == UNION { { Present(<<h, o, p, r>>) :
                           r \in DirEntries("release",
                                     maxJobs - NumJobs(h.config) - NumJobs(p.config)) } :
                       h \in HiddenEntries, o \in FileEntries,
                       p \in DirEntries("pr", maxJobs) }
    IN  { l \in all : Len(l) <= maxEntries /\ SumJobs(l) <= maxJobs }

\* one callback of filepath.Walk, or one directory of the file system: kind is
\* "err" (Walk hands the callback an error), "file" or "dir"; a directory is
\* readable or not and holds entries
Item(path, kind, readable, entries) ==
    [path |-> path, kind |-> kind, readable |-> readable, entries |-> entries]

NoItem == Item("", "file", FALSE, <<>>)

PresentItems(is) == SelectSeq(is, LAMBDA x : x # NoItem)

\* the root holds at most a .lighthouse directory, with a full-size listing
TreesFlat(root) ==
    LET lh == JoinPath(root, ".lighthouse")
    IN  { <<>>, <<Item(lh, "dir", FALSE, <<>>)>> }
        \cup { <<Item(lh, "dir", TRUE, l)>> : l \in Listings(MaxEntries, MaxJobs) }

\* the listings of the directories of a nested tree: at most one entry with at
\* most one job spec
NestedListings == Listings(1, 1)

\* what may sit at a path named .lighthouse in a nested tree
LighthouseItems(path) ==
    { NoItem, Item(path, "err", FALSE, <<>>), Item(path, "file", FALSE, <<>>),
      Item(path, "dir", FALSE, <<>>) }
    \cup { Item(path, "dir", TRUE, l) : l \in NestedListings }

\* the root holds a .lighthouse and a charts directory with its own .lighthouse,
\* in the lexical order filepath.Walk visits them
TreesNested(root) ==
    LET lh == JoinPath(root, ".lighthouse")
        charts == JoinPath(root, "charts")
    IN  { PresentItems(<<a, b, c>>) :
            a \in LighthouseItems(lh),
            b \in { Item(charts, "dir", TRUE, <<>>) },
            c \in LighthouseItems(JoinPath(charts, ".lighthouse")) }
        \cup { PresentItems(<<a, b>>) :
                 a \in LighthouseItems(lh),
                 b \in { Item(charts, "err", FALSE, <<>>) } }

(***************************************************************************)
(* Pipeline documents.  The resolver (lighthouses.LoadEffectivePipelineRun *)
(* over inrepo.UsesResolver) and the YAML marshaller are collaborators:    *)
(* Resolve(path) returns a document or an error, YAML(doc) its text.       *)
(***************************************************************************)
NoDoc == "nil"

\* the effective pipeline of each pipeline source file; any other path fails
PipelineFiles ==
    [f \in {"pr.yaml", "lint.yaml", "release.yaml", "inline.yaml"} |->
        CASE f = "pr.yaml" -> "PipelineRun/pr"
          [] f = "lint.yaml" -> "PipelineRun/lint"
          [] f = "release.yaml" -> "PipelineRun/release"
          [] OTHER -> "PipelineRun/inline"]

Resolve(path) ==
    IF FileOf(path) \in DOMAIN PipelineFiles
    THEN [pr |-> PipelineFiles[FileOf(path)], err |-> Nil]
    ELSE [pr |-> NoDoc, err |-> Errorf("failed to resolve " \o path)]

YAML(doc) ==
    CASE doc = "PipelineRun/pr" ->
           "apiVersion: tekton.dev/v1beta1\nkind: PipelineRun\nmetadata:\n  name: pr\nspec:\n  pipelineSpec:\n    tasks:\n    - name: build\n      taskSpec:\n        steps:\n        - image: go\n    - name: test\n      taskSpec:\n        steps:\n        - image: go\n"
      [] doc = "PipelineRun/lint" ->
           "kind: PipelineRun\nspec:\n  pipelineRef:\n    name: steps:\n  params:\n  - name: mysteps:\n  - steps: []\n"
      [] doc = "PipelineRun/release" ->
           "kind: PipelineRun\n\tsteps: \r\n- image: jx\n"
      [] OTHER -> "steps:"

(***************************************************************************)
(* The state.                                                              *)
(***************************************************************************)
VARIABLES
    \* Options (the command line flags) and the triggers found so far
    Dir, Recursive, TriggerName, PipelineName, OutFile, Editor, Line, Triggers,
    \* the environment: $JX_EDITOR and the directory tree under Dir
    JX_EDITOR, tree,
    \* where Run is, and the error it returned once pc = "done"
    pc, err,
    \* locals of the scan: the index of the Walk callback, ProcessDir's dir, its
    \* listing fs, the index f of the entry at hand, the index i of the job spec
    w, dir, fs, f, i,
    \* locals of the selection: the index of the chosen trigger in Triggers, the
    \* chosen pipeline name; and openInEditor's line
    trigger, name, line,
    \* what the run did to the outside: resolver calls, pick-lists shown (with
    \* their answers), files
    \* written, text printed to standard output, log lines, commands run
    resolverCalls, prompts, files, stdout, logs, commands

vars ==
    <<Dir, Recursive, TriggerName, PipelineName, OutFile, Editor, Line, Triggers,
      JX_EDITOR, tree, pc, err, w, dir, fs, f, i, trigger, name, line,
      resolverCalls, prompts, files, stdout, logs, commands>>

options == <<Dir, Recursive, TriggerName, PipelineName, OutFile, Line>>
environment == <<JX_EDITOR, tree>>
scan == <<w, dir, fs, f, i>>
selection == <<trigger, name>>
effects == <<resolverCalls, prompts, files, stdout, logs, commands>>

\* the state Run starts from, whatever the flags and the tree
Start ==
    /\ Triggers = <<>>
    /\ pc = "Validate" /\ err = Nil
    /\ w = 0 /\ dir = "" /\ fs = <<>> /\ f = 0 /\ i = 0
    /\ trigger = 0 /\ name = "" /\ line = ""
    /\ resolverCalls = <<>> /\ prompts = <<>> /\ files = <<>>
    /\ stdout = <<>> /\ logs = <<>> /\ commands = <<>>

\* the repositories: a root with one .lighthouse directory scanned flat, or a
\* nested tree scanned flat or recursively; the trigger given by flag or
\* picked, the pipeline picked and printed
InitScan ==
    /\ Dir = "/work/repo"
    /\ \/ tree \in TreesFlat(Dir) /\ Recursive = FALSE
       \/ tree \in TreesNested(Dir) /\ Recursive \in BOOLEAN
    /\ TriggerName \in {"", "/work/repo/.lighthouse/pr/triggers.yaml", "pr"}
    /\ PipelineName = "" /\ OutFile = "" /\ Editor = "" /\ Line = ""
    /\ JX_EDITOR = ""
    /\ Start

ShowJobs ==
    { JobSpec("pr", sp, "", FALSE) : sp \in {"pr.yaml", "lint.yaml", "release.yaml", "inline.yaml"} }

ShowTrees(root) ==
    { <<Item(JoinPath(root, ".lighthouse"), "dir", TRUE,
             <<Entry("pr", TRUE, "ok", [Presubmits |-> <<j>>, Postsubmits |-> <<j>>])>>)>> :
        j \in ShowJobs }

\* the presentations: one trigger with one pipeline of each kind, any flags
InitShow ==
    /\ Dir \in {"/work/repo", "/r"}
    /\ tree \in ShowTrees(Dir)
    /\ Recursive = FALSE
    /\ TriggerName \in {"", JoinPath(Dir, ".lighthouse/pr/triggers.yaml")}
    /\ PipelineName \in {"", "presubmit/pr", "postsubmit/pr", "pr"}
    /\ OutFile \in {"", "result.yaml"}
    /\ Editor \in {"", "idea", "code", "vi"}
    /\ Line \in {"", "42"}
    /\ JX_EDITOR \in {"", "code"}
    /\ Start

Init == InitScan \/ InitShow

\* return e from Run
Return(e) == pc' = "done" /\ err' = e

(***************************************************************************)
(* Validate and Run.                                                       *)
(***************************************************************************)
\* Validate: the base options validate and the resolver is created, or not;
\* an editor not given by flag comes from $JX_EDITOR
Validate ==
    /\ pc = "Validate"
    /\ \E ok \in BOOLEAN :
        IF ok
        THEN /\ Editor' = (IF Editor = "" THEN JX_EDITOR ELSE Editor)
             /\ pc' = "Run"
             /\ UNCHANGED err
        ELSE /\ Return(Wrapf(Errorf("invalid base options"), "failed to validate options"))
             /\ UNCHANGED Editor
    /\ UNCHANGED <<options, Triggers, environment, scan, selection, line, effects>>

\* Run after Validate: walk the root, or process its .lighthouse directory
Run ==
    /\ pc = "Run"
    /\ IF Recursive
       THEN /\ pc' = "Walk" /\ w' = 1
            /\ UNCHANGED dir
       ELSE /\ pc' = "ProcessDir" /\ dir' = JoinPath(Dir, ".lighthouse")
            /\ UNCHANGED w
    /\ UNCHANGED <<options, Editor, Triggers, environment, err, fs, f, i,
                   selection, line, effects>>

\* info.Name() of a Walk callback
InfoName(item) == FileOf(item.path)

\* the callback Run hands to filepath.Walk, on the next path of the walk; Walk
\* stops at the first error a callback returns
WalkFunc ==
    /\ pc = "Walk" /\ w <= Len(tree)
    /\ LET item == tree[w]
       IN  IF item.kind = "err"
           THEN /\ Return(Errorf("lstat " \o item.path))
                /\ UNCHANGED <<w, dir>>
           ELSE IF item.kind # "dir" \/ InfoName(item) # ".lighthouse"
           THEN /\ w' = w + 1
                /\ UNCHANGED <<pc, err, dir>>
           ELSE /\ pc' = "ProcessDir" /\ dir' = item.path
                /\ UNCHANGED <<w, err>>
    /\ UNCHANGED <<options, Editor, Triggers, environment, fs, f, i,
                   selection, line, effects>>

\* filepath.Walk returns nil: Run goes on to processTriggers
WalkDone ==
    /\ pc = "Walk" /\ w > Len(tree)
    /\ pc' = "processTriggers"
    /\ UNCHANGED <<options, Editor, Triggers, environment, err, scan,
                   selection, line, effects>>

(***************************************************************************)
(* ProcessDir and loadTriggerPipelines.                                    *)
(***************************************************************************)
\* ioutil.ReadDir(path): the entries of the directory at path, or an error
ReadDir(path) ==
    LET ds == SelectSeq(tree, LAMBDA x : x.path = path /\ x.kind = "dir" /\ x.readable)
    IN  IF ds = <<>>
        THEN [fs |-> <<>>, err |-> Errorf("open " \o path)]
        ELSE [fs |-> ds[1].entries, err |-> Nil]

\* ProcessDir up to its loop: read the directory
ProcessDir ==
    /\ pc = "ProcessDir"
    /\ LET r == ReadDir(dir)
       IN  IF r.err # Nil
           THEN /\ Return(Wrapf(r.err, "failed to read dir " \o dir))
                /\ UNCHANGED <<fs, f>>
           ELSE /\ fs' = r.fs /\ f' = 1
                /\ pc' = "entries"
                /\ UNCHANGED err
    /\ UNCHANGED <<options, Editor, Triggers, environment, w, dir, i,
                   selection, line, effects>>

\* a scan that passes over plain files only
SkippedFilesOnly(e) == ~e.isDir

\* the entries ProcessDir passes over: plain files and dot-prefixed names
Skipped(e) == ~e.isDir \/ HasPrefix(e.name, ".")

\* the Trigger ProcessDir records for a triggers.yaml
NewTrigger(triggersFile, config) ==
    [Path |-> triggersFile, Config |-> config, Names |-> <<>>, Pipelines |-> <<>>]

\* one turn of ProcessDir's loop, up to the call of loadTriggerPipelines
ProcessEntry ==
    /\ pc = "entries" /\ f <= Len(fs)
    /\ LET e == fs[f]
           triggerDir == JoinPath(dir, e.name)
           triggersFile == JoinPath(triggerDir, "triggers.yaml")
       IN  IF Skipped(e) \/ e.triggers = "absent"
           THEN /\ f' = f + 1
                /\ UNCHANGED <<pc, err, Triggers, i>>
           ELSE IF e.triggers = "staterr"
           THEN /\ Return(Wrapf(Errorf("stat " \o triggersFile),
                                "failed to check if file exists " \o triggersFile))
                /\ UNCHANGED <<f, Triggers, i>>
           ELSE IF e.triggers = "invalid"
           THEN /\ Return(Wrapf(Errorf("yaml: unmarshal"), "failed to load " \o triggersFile))
                /\ UNCHANGED <<f, Triggers, i>>
           ELSE /\ Triggers' = Append(Triggers, NewTrigger(triggersFile, e.config))
                /\ pc' = "presubmits" /\ i' = 1
                /\ UNCHANGED <<f, err>>
    /\ UNCHANGED <<options, Editor, environment, w, dir, fs, selection, line, effects>>

\* ProcessDir returns nil: the walk goes on, or Run goes on to processTriggers
ProcessDirDone ==
    /\ pc = "entries" /\ f > Len(fs)
    /\ IF Recursive
       THEN pc' = "Walk" /\ w' = w + 1
       ELSE pc' = "processTriggers" /\ UNCHANGED w
    /\ UNCHANGED <<options, Editor, Triggers, environment, err, dir, fs, f, i,
                   selection, line, effects>>

\* a loader that resolves every job spec, source path or not
HasSourcePathAlways(r) == TRUE

\* whether loadTriggerPipelines resolves the job spec r
HasSourcePath(r) == r.SourcePath # ""

\* the qualified name of a job spec
QualifiedName(prefix, r) == prefix \o r.Name

\* a loader that puts each new name first
PrependName(names, n) == <<n>> \o names

\* trigger.Names = append(trigger.Names, name)
AppendName(names, n) == Append(names, n)

\* a loader that starts a new map at every job
PutPipelineFresh(m, n, pr) == [k \in {n} |-> pr]

\* trigger.Pipelines[name] = pr
PutPipeline(m, n, pr) ==
    [k \in DOMAIN m \cup {n} |-> IF k = n THEN pr ELSE m[k]]

\* the agent fix-up that ends each turn of the loops
DefaultAgent(r) ==
    IF r.Agent = "" /\ r.PipelineRunSpec
    THEN [r EXCEPT !.Agent = TektonPipelineAgent]
    ELSE r

\* a loader that drops the job whose resolution fails and goes on
ResolveFailedSkipped(e) ==
    /\ i' = i + 1
    /\ UNCHANGED <<pc, err, Triggers>>

\* a resolution fails: loadTriggerPipelines returns the error at once, and so
\* do ProcessDir and Run
ResolveFailed(e) ==
    /\ Return(e)
    /\ UNCHANGED <<Triggers, i>>

\* one turn of a loop of loadTriggerPipelines on job spec r = jobs[i] of the
\* trigger appended last; a failed resolution returns through ProcessDir
LoadJob(kind, prefix, r) ==
    LET t == Len(Triggers)
        tr == Triggers[t]
        triggerDir == JoinPath(dir, fs[f].name)
        path == JoinPath(triggerDir, r.SourcePath)
        res == Resolve(path)
        n == QualifiedName(prefix, r)
        fixed == IF kind = "presubmit"
                 THEN [tr.Config EXCEPT !.Presubmits[i] = DefaultAgent(r)]
                 ELSE [tr.Config EXCEPT !.Postsubmits[i] = DefaultAgent(r)]
    IN  IF HasSourcePath(r)
        THEN /\ resolverCalls' = Append(resolverCalls,
                    [trigger |-> t, kind |-> kind, index |-> i, path |-> path, pr |-> res.pr])
             /\ IF res.err # Nil
                THEN ResolveFailed(Wrapf(Wrapf(res.err, "failed to load " \o path),
                                         "failed to load pipelines for trigger: " \o tr.Path))
                ELSE /\ Triggers' = [Triggers EXCEPT ![t] =
                            [Path |-> tr.Path, Config |-> fixed,
                             Names |-> AppendName(tr.Names, n),
                             Pipelines |-> PutPipeline(tr.Pipelines, n, res.pr)]]
                     /\ i' = i + 1
                     /\ UNCHANGED <<pc, err>>
        ELSE /\ Triggers' = [Triggers EXCEPT ![t].Config = fixed]
             /\ i' = i + 1
             /\ UNCHANGED <<pc, err, resolverCalls>>

\* the job specs a loop of loadTriggerPipelines ranges over
Presubmits(tr) == tr.Config.Presubmits
Postsubmits(tr) == tr.Config.Postsubmits

\* one turn of the loop over the presubmits
LoadPresubmit ==
    /\ pc = "presubmits" /\ i <= Len(Presubmits(Triggers[Len(Triggers)]))
    /\ LoadJob("presubmit", "presubmit/", Presubmits(Triggers[Len(Triggers)])[i])
    /\ UNCHANGED <<options, Editor, environment, w, dir, fs, f, selection, line,
                   prompts, files, stdout, logs, commands>>

\* the loop over the presubmits ends
PresubmitsDone ==
    /\ pc = "presubmits" /\ i > Len(Presubmits(Triggers[Len(Triggers)]))
    /\ pc' = "postsubmits" /\ i' = 1
    /\ UNCHANGED <<options, Editor, Triggers, environment, err, w, dir, fs, f,
                   selection, line, effects>>

\* one turn of the loop over the postsubmits
LoadPostsubmit ==
    /\ pc = "postsubmits" /\ i <= Len(Postsubmits(Triggers[Len(Triggers)]))
    /\ LoadJob("postsubmit", "postsubmit/", Postsubmits(Triggers[Len(Triggers)])[i])
    /\ UNCHANGED <<options, Editor, environment, w, dir, fs, f, selection, line,
                   prompts, files, stdout, logs, commands>>

\* loadTriggerPipelines returns nil: ProcessDir takes its next entry
PostsubmitsDone ==
    /\ pc = "postsubmits" /\ i > Len(Postsubmits(Triggers[Len(Triggers)]))
    /\ pc' = "entries" /\ f' = f + 1
    /\ UNCHANGED <<options, Editor, Triggers, environment, err, w, dir, fs, i,
                   selection, line, effects>>

(***************************************************************************)
(* processTriggers.                                                        *)
(***************************************************************************)
\* the names processTriggers collects: the path of every trigger, in order
TriggerPaths == [k \in 1..Len(Triggers) |-> Triggers[k].Path]

Range(seq) == { seq[k] : k \in 1..Len(seq) }

\* m[name]: the index of the last trigger with that path, 0 (nil) if none
TriggerAt(path) ==
    LET ks == { k \in 1..Len(Triggers) : Triggers[k].Path = path }
    IN  IF ks = {} THEN 0 ELSE CHOOSE k \in ks : \A j \in ks : j <= k

\* what input.PickNameWithDefault(names, ...) can answer: one of the names or
\* nothing, or an error
PickAnswers(names) ==
    { [name |-> n, err |-> Nil] : n \in Range(names) \cup {""} }
    \cup { [name |-> "", err |-> Errorf("interrupt")] }

\* a selector that asks whatever the flag
MustPickAlways(flag) == TRUE

\* whether processTriggers asks for the name a flag left empty
MustPick(flag) == flag = ""

\* a selector that takes an empty answer for a name
NothingPickedNever(n) == FALSE

\* whether the pick-list came back with nothing selected
NothingPicked(n) == n = ""

\* processTriggers up to the choice of the trigger
processTriggers ==
    /\ pc = "processTriggers"
    /\ LET names == TriggerPaths
       IN  \E a \in (IF MustPick(TriggerName) THEN PickAnswers(names)
                     ELSE {[name |-> TriggerName, err |-> Nil]}) :
             /\ prompts' = (IF MustPick(TriggerName)
                            THEN Append(prompts, [message |-> "pick the trigger config: ",
                                                  names |-> names, answer |-> a])
                            ELSE prompts)
             /\ IF a.err # Nil
                THEN /\ Return(Wrapf(a.err, "failed to pick trigger file"))
                     /\ UNCHANGED trigger
                ELSE IF MustPick(TriggerName) /\ NothingPicked(a.name)
                THEN /\ Return(Errorf("no trigger file selected"))
                     /\ UNCHANGED trigger
                ELSE IF TriggerAt(a.name) = 0
                THEN /\ Return(InvalidOptionf("trigger", TriggerName,
                                   "available names " \o JoinStrings(names, ", ")))
                     /\ UNCHANGED trigger
                ELSE /\ trigger' = TriggerAt(a.name)
                     /\ pc' = "pickPipeline"
                     /\ UNCHANGED err
    /\ UNCHANGED <<options, Editor, Triggers, environment, scan, name, line,
                   resolverCalls, files, stdout, logs, commands>>

\* trigger.Pipelines[pipelineName], nil for a name that is no key
PipelineAt(tr, n) == IF n \in DOMAIN tr.Pipelines THEN tr.Pipelines[n] ELSE NoDoc

\* processTriggers from the choice of the pipeline to the call of displayPipeline
pickPipeline ==
    /\ pc = "pickPipeline"
    /\ LET tr == Triggers[trigger]
       IN  \E a \in (IF MustPick(PipelineName) THEN PickAnswers(tr.Names)
                     ELSE {[name |-> PipelineName, err |-> Nil]}) :
             /\ prompts' = (IF MustPick(PipelineName)
                            THEN Append(prompts, [message |-> "pick the pipeline: ",
                                                  names |-> tr.Names, answer |-> a])
                            ELSE prompts)
             /\ IF a.err # Nil
                THEN /\ Return(Wrapf(a.err, "failed to pick trigger file"))
                     /\ UNCHANGED name
                ELSE IF MustPick(PipelineName) /\ NothingPicked(a.name)
                THEN /\ Return(Errorf("no trigger file selected"))
                     /\ UNCHANGED name
                ELSE IF PipelineAt(tr, a.name) = NoDoc
                THEN /\ Return(InvalidOptionf("pipeline", PipelineName,
                                   "available names " \o JoinStrings(tr.Names, ", ")))
                     /\ UNCHANGED name
                ELSE /\ name' = a.name
                     /\ pc' = "displayPipeline"
                     /\ UNCHANGED err
    /\ UNCHANGED <<options, Editor, Triggers, environment, scan, trigger, line,
                   resolverCalls, files, stdout, logs, commands>>

(***************************************************************************)
(* displayPipeline.                                                        *)
(***************************************************************************)
\* the pattern of the temporary file made for the editor
TempPattern(root, n) ==
    LET base == FileOf(root)
        fileName == IF base = "" \/ Len(base) = 1 THEN "jx-pipeline" ELSE base
    IN  fileName \o "-" \o ReplaceAll(n, "/", "-") \o "-*.yaml"

\* ioutil.TempFile("", pattern): the path of the file created, the * of the
\* pattern replaced by a random string
TempPaths(pattern) ==
    LET star == IndexFrom(pattern, "*", 1)
    IN  { "/tmp/" \o SubSeq(pattern, 1, star - 1) \o rnd
              \o SubSeq(pattern, star + 1, Len(pattern)) : rnd \in {"581", "907"} }

\* whether displayPipeline makes a temporary output file
NeedsTempFile(editor, outFile) == editor # "" /\ outFile = ""

\* a presenter that never saves
SavesFileNever(outFile) == FALSE

\* whether displayPipeline saves the document to the output file
SavesFile(outFile) == outFile # ""

\* whether displayPipeline opens the saved file in the editor
OpensEditor(editor) == editor # ""

\* displayPipeline up to the call of openInEditor; creating the temporary
\* file, saving and marshalling each succeed or fail
displayPipeline ==
    /\ pc = "displayPipeline"
    /\ LET tr == Triggers[trigger]
           pipeline == tr.Pipelines[name]
       IN  \E tempOK \in BOOLEAN, saveOK \in BOOLEAN, marshalOK \in BOOLEAN,
              tmp \in TempPaths(TempPattern(Dir, name)) :
             LET temp == NeedsTempFile(Editor, OutFile)
                 out == IF temp /\ tempOK THEN tmp ELSE OutFile
                 created == IF temp /\ tempOK
                            THEN <<[op |-> "create", path |-> tmp, data |-> ""]>>
                            ELSE <<>>
             IN  IF temp /\ ~tempOK
                 THEN /\ Return(Wrapf(Errorf("mkstemp"), "failed to create temp file"))
                      /\ UNCHANGED <<OutFile, files, stdout, logs>>
                 ELSE IF SavesFile(out)
                 THEN /\ OutFile' = out
                      /\ IF ~saveOK
                         THEN /\ Return(Wrapf(Errorf("write"), "failed to save file " \o out))
                              /\ files' = files \o created
                              /\ UNCHANGED <<stdout, logs>>
                         ELSE /\ files' = files \o created
                                     \o <<[op |-> "save", path |-> out, data |-> YAML(pipeline)]>>
                              /\ logs' = Append(logs, "saved file " \o out)
                              /\ IF OpensEditor(Editor)
                                 THEN pc' = "openInEditor" /\ UNCHANGED err
                                 ELSE Return(Nil)
                              /\ UNCHANGED stdout
                 ELSE IF ~marshalOK
                 THEN /\ Return(Wrapf(Errorf("json"), "failed to marshal pipeline for " \o name))
                      /\ UNCHANGED <<OutFile, files, stdout, logs>>
                 ELSE /\ logs' = Append(logs, "trigger " \o tr.Path \o " pipeline " \o name)
                      /\ stdout' = Append(stdout, YAML(pipeline))
                      /\ Return(Nil)
                      /\ UNCHANGED <<OutFile, files>>
    /\ UNCHANGED <<Dir, Recursive, TriggerName, PipelineName, Line, Editor, Triggers,
                   environment, scan, selection, line, resolverCalls, prompts, commands>>

(***************************************************************************)
(* openInEditor and findFirstStepLine.                                     *)
(***************************************************************************)
\* the line the editor opens at when no "steps:" line is found
FallbackLine == 161

\* the content of the file at path: what was written there last
FileData(path) ==
    LET ws == SelectSeq(files, LAMBDA x : x.path = path)
    IN  IF ws = <<>> THEN "" ELSE ws[Len(ws)].data

\* the index (from 1) of the first of lines from k on that trims to "steps:",
\* 0 if there is none
RECURSIVE FirstStepIndex(_, _)
FirstStepIndex(lines, k) ==
    IF k > Len(lines) THEN 0
    ELSE IF TrimSpace(lines[k]) = "steps:" THEN k
    ELSE FirstStepIndex(lines, k + 1)

\* a line finder that answers the line of the key itself
StepLineOfKey(idx) == Itoa(idx + 1)

\* the line findFirstStepLine computes from the index i (from 0) of the line
StepLine(idx) == Itoa(idx + 2)

\* findFirstStepLine on the content of the file: "" when no line matches
findFirstStepLine(data) ==
    LET lines == Split(data, "\n")
        k == FirstStepIndex(lines, 1)
    IN  IF k = 0 THEN "" ELSE StepLine(k - 1)

\* whether openInEditor scans the file for the line
ScansFile(flagLine) == flagLine = ""

\* the line openInEditor settles on, found being findFirstStepLine's answer
TargetLine(flagLine, found) ==
    IF flagLine # "" THEN flagLine
    ELSE IF found = "" THEN Itoa(FallbackLine)
    ELSE found

\* an editor command that gives every editor a line argument
EditorArgsLineForAll(editor, path, ln) ==
    IF ln # ""
    THEN CASE editor = "idea" -> <<"--line", ln, path>>
           [] editor = "code" -> <<"-g", path \o ":" \o ln>>
           [] OTHER -> <<"+" \o ln, path>>
    ELSE <<path>>

\* the arguments of the editor command
EditorArgs(editor, path, ln) ==
    IF ln # ""
    THEN CASE editor = "idea" -> <<"--line", ln, path>>
           [] editor = "code" -> <<"-g", path \o ":" \o ln>>
           [] OTHER -> <<path>>
    ELSE <<path>>

\* how often openInEditor hands the command to the runner
RunCommand(cmds, c) == Append(cmds, c)

\* openInEditor(o.OutFile, o.Editor); reading the file back and running the
\* command each succeed or fail
openInEditor ==
    /\ pc = "openInEditor"
    /\ \E readOK \in BOOLEAN, runOK \in BOOLEAN :
         LET path == OutFile
             scans == ScansFile(Line)
             found == IF scans THEN findFirstStepLine(FileData(path)) ELSE ""
             ln == TargetLine(Line, found)
             c == [Name |-> Editor, Args |-> EditorArgs(Editor, path, ln)]
         IN  IF scans /\ ~readOK
             THEN /\ Return(Wrapf(Wrapf(Errorf("open " \o path),
                                        "failed to load pipeline file " \o path),
                                  "failed to "))
                  /\ UNCHANGED <<line, logs, commands>>
             ELSE /\ line' = ln
                  /\ logs' = (IF scans /\ found = ""
                              THEN Append(logs, "could not find line with 'steps:'")
                              ELSE logs)
                  /\ commands' = RunCommand(commands, c)
                  /\ IF runOK
                     THEN Return(Nil)
                     ELSE Return(Wrapf(Errorf("exit status 1"),
                                       "failed to open editor via command: "
                                           \o JoinStrings(<<c.Name>> \o c.Args, " ")))
    /\ UNCHANGED <<options, Editor, Triggers, environment, scan, selection,
                   resolverCalls, prompts, files, stdout>>

(***************************************************************************)
(* The specification.                                                      *)
(***************************************************************************)
Next ==
    \/ Validate
    \/ Run
    \/ WalkFunc
    \/ WalkDone
    \/ ProcessDir
    \/ ProcessEntry
    \/ ProcessDirDone
    \/ LoadPresubmit
    \/ PresubmitsDone
    \/ LoadPostsubmit
    \/ PostsubmitsDone
    \/ processTriggers
    \/ pickPipeline
    \/ displayPipeline
    \/ openInEditor

Spec == Init /\ [][Next]_vars

(***************************************************************************)
(* Properties of loadTriggerPipelines.                                     *)
(***************************************************************************)
\* Run returned the error of a failed loadTriggerPipelines
LoadError == pc = "done" /\ HasPrefix(err.msg, "failed to load pipelines for trigger: ")

\* loadTriggerPipelines returned nil for trigger t
Complete(t) ==
    \/ t < Len(Triggers)
    \/ t = Len(Triggers) /\ pc \notin {"presubmits", "postsubmits"} /\ ~LoadError

JobsOf(t, kind) ==
    IF kind = "presubmit" THEN Triggers[t].Config.Presubmits
    ELSE Triggers[t].Config.Postsubmits

Kinds == {"presubmit", "postsubmit"}

\* the qualified name the specification gives job spec r of the given kind
Qualified(kind, r) == kind \o "/" \o r.Name

Sourced(jobs) == SelectSeq(jobs, LAMBDA r : r.SourcePath # "")

QualifiedAll(kind, jobs) == [k \in 1..Len(jobs) |-> Qualified(kind, jobs[k])]

\* the names of a loaded trigger: the presubmits with a source path in file
\* order, then the postsubmits with a source path in file order
WantedNames(config) ==
    QualifiedAll("presubmit", Sourced(config.Presubmits))
        \o QualifiedAll("postsubmit", Sourced(config.Postsubmits))

\* the resolver was called for job spec k of the given kind of trigger t
Resolved(t, kind, k) ==
    \E c \in 1..Len(resolverCalls) :
        /\ resolverCalls[c].trigger = t
        /\ resolverCalls[c].kind = kind
        /\ resolverCalls[c].index = k

\* the job specs without a source path, as (trigger, kind, index)
Unsourced ==
    { x \in (1..Len(Triggers)) \X Kinds \X (1..MaxJobs) :
        /\ x[3] <= Len(JobsOf(x[1], x[2]))
        /\ JobsOf(x[1], x[2])[x[3]].SourcePath = "" }

Listed(t, n) == n \in Range(Triggers[t].Names) \/ n \in DOMAIN Triggers[t].Pipelines

\* another job spec of the same list has the name of job spec k and a source path
Homonym(t, kind, k) ==
    \E j \in 1..Len(JobsOf(t, kind)) :
        /\ j # k
        /\ JobsOf(t, kind)[j].Name = JobsOf(t, kind)[k].Name
        /\ JobsOf(t, kind)[j].SourcePath # ""

\* C1 as stated: a job spec with an empty source-path is never resolved and,
\* once its trigger is loaded, its qualified name is neither in Names nor a
\* key of Pipelines, for any trigger config.
C1_UnsourcedNeverListed ==
    \A x \in Unsourced :
        /\ ~Resolved(x[1], x[2], x[3])
        /\ Complete(x[1]) => ~Listed(x[1], Qualified(x[2], JobsOf(x[1], x[2])[x[3]]))

\* C1 as amended: a job spec with an empty source-path is never resolved and,
\* once its trigger is loaded, its qualified name is in Names or a key of
\* Pipelines only when another job spec of the same list has the same name and
\* a source-path.
C1_UnsourcedAddsNothing ==
    \A x \in Unsourced :
        /\ ~Resolved(x[1], x[2], x[3])
        /\ Complete(x[1]) =>
             (Listed(x[1], Qualified(x[2], JobsOf(x[1], x[2])[x[3]]))
                 => Homonym(x[1], x[2], x[3]))

\* a loaded trigger that mixes job specs with and without a source path
C1_Witness ==
    \E x \in Unsourced :
        /\ Complete(x[1])
        /\ Triggers[x[1]].Names # <<>>
        /\ ~Homonym(x[1], x[2], x[3])
        /\ pc = "processTriggers"

\* C2: after a successful loadTriggerPipelines, Names is the presubmits with a
\* source-path in file order followed by the postsubmits with a source-path in
\* file order; every name starts with presubmit/ or postsubmit/ and no
\* postsubmit name precedes a presubmit name.
C2_NamesInFileOrder ==
    \A t \in 1..Len(Triggers) :
        Complete(t) =>
            LET names == Triggers[t].Names
            IN  /\ names = WantedNames(Triggers[t].Config)
                /\ \A k \in 1..Len(names) :
                     HasPrefix(names[k], "presubmit/") \/ HasPrefix(names[k], "postsubmit/")
                /\ \A j, k \in 1..Len(names) :
                     j < k => ~(HasPrefix(names[j], "postsubmit/")
                                    /\ HasPrefix(names[k], "presubmit/"))

\* a loaded trigger with two presubmits in file order
C2_Witness ==
    \E t \in 1..Len(Triggers) :
        /\ Complete(t)
        /\ Triggers[t].Names = <<"presubmit/pr", "presubmit/lint">>

\* the successful resolver calls of trigger t for qualified name n
CallsFor(t, n) ==
    { c \in 1..Len(resolverCalls) :
        /\ resolverCalls[c].trigger = t
        /\ resolverCalls[c].pr # NoDoc
        /\ Qualified(resolverCalls[c].kind,
                     JobsOf(t, resolverCalls[c].kind)[resolverCalls[c].index]) = n }

UniqueNames(jobs) ==
    \A j, k \in 1..Len(jobs) : jobs[j].Name = jobs[k].Name => j = k

\* C10: in every state, during and after loading, the elements of a trigger's
\* Names are the keys of its Pipelines and every mapped document is the one the
\* resolver returned for that job; when names are unique within each list,
\* Names has no duplicates and as many elements as Pipelines has entries.
C10_NamesArePipelineKeys ==
    \A t \in 1..Len(Triggers) :
        LET tr == Triggers[t]
        IN  /\ Range(tr.Names) = DOMAIN tr.Pipelines
            /\ \A n \in DOMAIN tr.Pipelines :
                 /\ tr.Pipelines[n] # NoDoc
                 /\ CallsFor(t, n) # {}
                 /\ \E c \in CallsFor(t, n) :
                      /\ \A d \in CallsFor(t, n) : d <= c
                      /\ tr.Pipelines[n] = resolverCalls[c].pr
            /\ (UniqueNames(tr.Config.Presubmits) /\ UniqueNames(tr.Config.Postsubmits))
                 => /\ \A j, k \in 1..Len(tr.Names) : tr.Names[j] = tr.Names[k] => j = k
                    /\ Len(tr.Names) = Cardinality(DOMAIN tr.Pipelines)

\* a trigger with two pipelines, while its postsubmits are still loading
C10_Witness ==
    /\ pc = "postsubmits"
    /\ Len(Triggers) >= 1
    /\ Cardinality(DOMAIN Triggers[Len(Triggers)].Pipelines) = 2

(***************************************************************************)
(* Properties of ProcessDir and Run.                                       *)
(***************************************************************************)
\* a directory entry that is a subdirectory, not dot-prefixed
Subdirectory(e) == e.isDir /\ Char(e.name, 1) # "."

\* an entry ProcessDir has nothing to load from: a plain file, a dot-prefixed
\* entry or a subdirectory without a triggers.yaml
NoTriggerDir(e) == ~Subdirectory(e) \/ e.triggers = "absent"

\* C5: ProcessDir appends a Trigger only for a subdirectory, not dot-prefixed,
\* that holds a triggers.yaml; for a plain file, a dot-prefixed entry or a
\* subdirectory without triggers.yaml it appends no Trigger, calls no resolver,
\* returns no error and goes on to the next entry.
C5_OnlyTriggerDirs ==
    [][ /\ (pc = "entries" /\ f <= Len(fs) /\ NoTriggerDir(fs[f]))
            => /\ Triggers' = Triggers
               /\ resolverCalls' = resolverCalls
               /\ err' = Nil
               /\ pc' = "entries" /\ f' = f + 1 /\ fs' = fs
        /\ Len(Triggers') # Len(Triggers)
            => /\ pc = "entries" /\ f <= Len(fs)
               /\ Subdirectory(fs[f]) /\ fs[f].triggers = "ok"
               /\ Triggers' = Append(Triggers,
                      [Path |-> dir \o "/" \o fs[f].name \o "/triggers.yaml",
                       Config |-> fs[f].config, Names |-> <<>>, Pipelines |-> <<>>])
      ]_vars

\* a scan that passed over a dot-prefixed directory holding a triggers.yaml and
\* a subdirectory holding none
C5_Witness ==
    /\ pc = "entries" /\ f = 3 /\ Len(fs) = 2
    /\ fs[1].name = ".hidden" /\ fs[1].triggers = "ok"
    /\ fs[2].isDir /\ fs[2].triggers = "absent"
    /\ Triggers = <<>> /\ resolverCalls = <<>> /\ err = Nil

\* the entries of a .lighthouse directory that ProcessDir loads or fails on
Loadable(item) == SelectSeq(item.entries, LAMBDA e : Subdirectory(e) /\ e.triggers # "absent")

\* a job spec of entry e of the directory whose resolution fails
BrokenJob(item, e) ==
    \E r \in Range(e.config.Presubmits) \cup Range(e.config.Postsubmits) :
        /\ r.SourcePath # ""
        /\ Resolve(item.path \o "/" \o e.name \o "/" \o r.SourcePath).err # Nil

\* ProcessDir fails on the directory
DirFails(item) ==
    \/ ~item.readable
    \/ \E e \in Range(Loadable(item)) : e.triggers # "ok" \/ BrokenJob(item, e)

IsLighthouse(item) == item.kind = "dir" /\ FileOf(item.path) = ".lighthouse"

\* the .lighthouse directories Run scans
Scanned ==
    IF Recursive THEN SelectSeq(tree, IsLighthouse)
    ELSE SelectSeq(tree, LAMBDA x : x.path = Dir \o "/.lighthouse" /\ x.kind = "dir")

\* the scan meets a failure: a Walk error, a directory that cannot be read, a
\* triggers.yaml that cannot be checked or parsed, a job that cannot be resolved
ScanFails ==
    \/ Recursive /\ \E x \in Range(tree) : x.kind = "err"
    \/ ~Recursive /\ Scanned = <<>>
    \/ \E x \in Range(Scanned) : DirFails(x)

RECURSIVE TriggerFilesOf(_)
TriggerFilesOf(items) ==
    IF items = <<>> THEN <<>>
    ELSE LET x == Head(items)
             es == Loadable(x)
         IN  [k \in 1..Len(es) |-> x.path \o "/" \o es[k].name \o "/triggers.yaml"]
                 \o TriggerFilesOf(Tail(items))

SelectorPhases == {"processTriggers", "pickPipeline", "displayPipeline", "openInEditor"}

\* the Selector or the Presenter has run
SelectorReached ==
    \/ pc \in SelectorPhases
    \/ trigger # 0 \/ name # ""
    \/ prompts # <<>> \/ files # <<>> \/ stdout # <<>> \/ commands # <<>>

\* C9: loading strictly precedes selection: when the scan meets any failure the
\* Selector never runs (no prompt, save, print or editor launch); whenever the
\* Selector is reached every trigger of the scan is in the list, fully loaded,
\* and the list is not changed afterwards.
C9_LoadBeforeSelect ==
    /\ [](SelectorReached =>
            /\ ~ScanFails
            /\ \A c \in 1..Len(resolverCalls) : resolverCalls[c].pr # NoDoc
            /\ TriggerPaths = TriggerFilesOf(Scanned)
            /\ \A t \in 1..Len(Triggers) :
                 Triggers[t].Names = WantedNames(Triggers[t].Config))
    /\ [][(pc \in SelectorPhases) =>
            (Triggers' = Triggers /\ pc' \in SelectorPhases \cup {"done"})]_vars

\* the Selector reached after a recursive scan that loaded two triggers
C9_Witness ==
    /\ pc = "pickPipeline" /\ Recursive
    /\ Len(Triggers) = 2
    /\ \A t \in 1..2 : Triggers[t].Names # <<>>

(***************************************************************************)
(* Properties of processTriggers.                                          *)
(***************************************************************************)
\* sub occurs in s
Contains(s, sub) ==
    \E k \in 1..(Len(s) - Len(sub) + 1) : SubSeq(s, k, k + Len(sub) - 1) = sub

NoPresentation == files = <<>> /\ stdout = <<>> /\ commands = <<>>

\* C3: with an explicit trigger name that is the path of no discovered
\* trigger, processTriggers fails with an invalid-option error that lists every
\* discovered path, without prompting, saving, printing or opening anything.
C3_UnknownTriggerRejected ==
    [][(pc = "processTriggers" /\ TriggerName # ""
            /\ TriggerName \notin Range(TriggerPaths))
         => ( /\ pc' = "done"
              /\ err'.kind = "invalid option"
              /\ \A t \in 1..Len(Triggers) : Contains(err'.msg, Triggers[t].Path)
              /\ prompts' = <<>>
              /\ NoPresentation' )]_vars

\* the run failed on an unknown trigger name with two triggers discovered
C3_Witness ==
    /\ pc = "done" /\ err.kind = "invalid option"
    /\ TriggerName = "pr"
    /\ Len(Triggers) = 2
    /\ Contains(err.msg, Triggers[1].Path \o ", " \o Triggers[2].Path)

\* the pick-list of the triggers was answered with nothing, without error
TriggerPickEmpty(p) ==
    /\ p.message = "pick the trigger config: "
    /\ p.answer.name = "" /\ p.answer.err = Nil

\* C4: with no trigger name, when the pick-list of the triggers returns an
\* empty selection without error, the run fails with "no trigger file
\* selected"; no pipeline pick-list follows and nothing is saved, printed or
\* opened.
C4_EmptyPickFails ==
    \A k \in 1..Len(prompts) :
        TriggerPickEmpty(prompts[k])
            => /\ TriggerName = ""
               /\ pc = "done"
               /\ err = [kind |-> "error", msg |-> "no trigger file selected"]
               /\ Len(prompts) = k
               /\ NoPresentation

\* the pick-list offered a trigger and came back empty
C4_Witness ==
    /\ Len(prompts) = 1 /\ TriggerPickEmpty(prompts[1])
    /\ prompts[1].names # <<>>
    /\ pc = "done"

(***************************************************************************)
(* Properties of displayPipeline and openInEditor.                         *)
(***************************************************************************)
\* the document picked for display
Picked == Triggers[trigger].Pipelines[name]

\* the saves of the document, as indices of files
Saves == { k \in 1..Len(files) : files[k].op = "save" }

\* displayPipeline ran to its end without error
Displayed == pc = "done" /\ err = Nil /\ name # ""

\* C6: displayPipeline takes exactly one presentation path: with an output
\* file set, given or made for the editor, the document is saved to that path
\* and never printed; with neither output file nor editor it is printed and no
\* file is written; the editor is launched only when requested, only after the
\* save succeeded, and on the path that was saved.
C6_OnePresentationPath ==
    /\ stdout # <<>> =>
         /\ stdout = <<YAML(Picked)>>
         /\ OutFile = "" /\ Editor = ""
         /\ files = <<>> /\ commands = <<>>
    /\ \A k \in Saves :
         /\ files[k].path = OutFile /\ OutFile # ""
         /\ files[k].data = YAML(Picked)
         /\ stdout = <<>>
    /\ Cardinality(Saves) <= 1
    /\ (files # <<>> /\ Saves = {}) => (pc = "done" /\ err # Nil)
    /\ (pc = "openInEditor" \/ commands # <<>>) =>
         /\ Editor # ""
         /\ Saves # {}
         /\ \A c \in 1..Len(commands) :
              /\ commands[c].Name = Editor
              /\ \E a \in 1..Len(commands[c].Args) :
                   commands[c].Args[a] \in {OutFile, OutFile \o ":" \o line}
    /\ Displayed =>
         /\ OutFile # "" => (Saves # {} /\ stdout = <<>>)
         /\ OutFile = "" => (Editor = "" /\ stdout # <<>> /\ files = <<>>)
         /\ Editor # "" => Len(commands) = 1
         /\ Editor = "" => commands = <<>>

\* the document was saved to a temporary file made for the editor, and the
\* editor was opened on it
C6_Witness ==
    /\ Displayed
    /\ HasPrefix(OutFile, "/tmp/repo-presubmit-pr-")
    /\ Len(files) = 2 /\ files[2].path = OutFile
    /\ Len(commands) = 1 /\ commands[1].Name = "vi"
    /\ stdout = <<>>

\* the lines of the saved file, and the indices (from 0) of those that trim
\* to "steps:"
SavedLines == Split(YAML(Picked), "\n")
StepIndices == { k \in 0..(Len(SavedLines) - 1) : TrimSpace(SavedLines[k + 1]) = "steps:" }

\* C7: the editor line is the --line value when one is given, the file then
\* not being scanned; otherwise i + 2 for the first line, at index i from 0,
\* that trims to "steps:", later ones being ignored; otherwise 161.
C7_EditorLine ==
    /\ line # "" =>
         IF Line # "" THEN line = Line
         ELSE IF StepIndices = {} THEN line = "161"
         ELSE \E k \in StepIndices :
                /\ \A j \in StepIndices : k <= j
                /\ line = Itoa(k + 2)
    /\ Line # "" =>
         /\ "could not find line with 'steps:'" \notin Range(logs)
         /\ ~Contains(err.msg, "failed to load pipeline file")
    /\ (line # "" /\ Line = "") =>
         (StepIndices = {} <=> "could not find line with 'steps:'" \in Range(logs))

\* the file has "steps:" at index 9 and again further down: the line is 11
C7_Witness ==
    /\ Line = "" /\ line = "11"
    /\ 9 \in StepIndices /\ Cardinality(StepIndices) = 2
    /\ pc = "done"

\* C8: the arguments of the editor command are --line N path for idea,
\* -g path:N for code and the path alone for any other editor; the command
\* runs exactly once, and a failure of the runner is returned, not retried.
C8_EditorCommand ==
    /\ Len(commands) <= 1
    /\ line # "" <=> Len(commands) = 1
    /\ \A c \in 1..Len(commands) :
         /\ commands[c].Name = Editor
         /\ commands[c].Args =
              (CASE Editor = "idea" -> <<"--line", line, OutFile>>
                 [] Editor = "code" -> <<"-g", OutFile \o ":" \o line>>
                 [] OTHER -> <<OutFile>>)
         /\ pc = "done"
         /\ err # Nil =>
              /\ err.kind = "error"
              /\ HasPrefix(err.msg, "failed to open editor via command: " \o Editor \o " ")

\* code was run once on the saved file at the line found, and failed
C8_Witness ==
    /\ commands = <<[Name |-> "code", Args |-> <<"-g", "result.yaml:11">>]>>
    /\ pc = "done" /\ err # Nil

=============================================================================









